---- MODULE Spec2Model ----
(***************************************************************************)
(* Model of dispatch/dispatcher.py: class Signal, an in-process            *)
(* publish/subscribe registry.  Threads run connect, disconnect, send,     *)
(* send_robust and has_listeners on one Signal; every read or write of     *)
(* shared state that the code performs outside an atomic region is a step  *)
(* of its own.  The garbage collector (Die) and the weakref.finalize       *)
(* callbacks (_remove_receiver) are separate processes.                    *)
(***************************************************************************)
EXTENDS Integers, Sequences, FiniteSets, Bags, TLC

(* ---------------------------------------------------------------- bounds *)
\* Operations started in one behaviour of the concurrent specification.
MaxOps == 4
\* Operations started in one behaviour of the single-thread specification.
MaxSeqOps == 5
\* Operations started in one behaviour of the specification with fairness.
MaxFairOps == 3

(* ------------------------------------------------------- the object heap *)
Threads == {"t1", "t2"}
\* Callables that can be passed to connect (plain functions; a bound
\* method differs only in how its identity and weak handle are built).
Receivers == {"A", "B", "C"}
\* Sender objects; "None" is Python's None, the others are weakly
\* referenceable objects (classes) that stay alive.
Senders == {"None", "s1", "s2"}
\* dispatch_uid values; 0 stands for every falsy value (None included).
DispatchUids == {0, 101}
\* The connect calls the callers make: << receiver, sender, weak, dispatch_uid >>.
\* A is held strongly, for every sender and, under uid 101, for s1; B is
\* held weakly for every sender; C is held weakly for s1 under uid 101,
\* the key it shares with A.
ConnectInputs == { << "A", "None", FALSE, 0 >>, << "B", "None", TRUE, 0 >>,
                   << "C", "s1", TRUE, 101 >>, << "A", "s1", FALSE, 101 >> }
\* The disconnect calls: << receiver, sender, dispatch_uid >>.
DisconnectInputs == { << "A", "None", 0 >>, << "B", "None", 0 >>, << "None", "s1", 101 >> }
\* id(): distinct addresses of the objects that are alive together.
Addr == [o \in Receivers \cup Senders |->
           CASE o = "None" -> 1 [] o = "s1" -> 2 [] o = "s2" -> 3
             [] o = "A" -> 11 [] o = "B" -> 12 [] o = "C" -> 13]

\* dispatcher.py:14-17 (plain callables and senders: id(target))
_make_id(target) == Addr[target]

NONE_ID == _make_id("None")

\* dispatcher.py:23, the cache marker; a cache slot is a record
\* [kind, list] with kind "absent" (no entry), "NO_RECEIVERS" or "list".
NO_RECEIVERS == [kind |-> "NO_RECEIVERS", list |-> << >>]
Absent == [kind |-> "absent", list |-> << >>]
Cached(l) == [kind |-> "list", list |-> l]

\* Outcomes of calling a receiver: it returns, raises an Exception
\* subclass, or raises a BaseException outside Exception (SystemExit...).
Outcomes == {"ok", "Exception", "BaseException"}

NoArgs == [name |-> "none", receiver |-> "None", sender |-> "None",
           weak |-> FALSE, uid |-> 0]
NoKey == << 0, 0 >>
NoRet == [kind |-> "none", bool |-> FALSE, resp |-> << >>, err |-> << >>]
Returned(b, resp) == [kind |-> "returned", bool |-> b, resp |-> resp, err |-> << >>]
Raised(class, who) == [kind |-> "raised", bool |-> FALSE, resp |-> << >>,
                       err |-> << class, who >>]

VARIABLES
  use_caching,            \* Signal.use_caching
  receivers,              \* Signal.receivers: sequence of [key, h]
  sender_receivers_cache, \* Signal.sender_receivers_cache: sender -> slot
  _dead_receivers,        \* Signal._dead_receivers
  lock,                   \* Signal.lock: "free" or the holding thread
  alive,                  \* receiver objects not yet collected
  finalizers,             \* weakref.finalize registrations per receiver
  pending,                \* finalize callbacks of dead receivers not yet run
  pc, args,               \* per thread: position and the call's arguments
  lookup_key,             \* per thread: local lookup_key
  rlist,                  \* per thread: local `receivers` of _live_receivers
  live,                   \* per thread: non_weak_receivers
  called,                 \* per thread: receivers invoked, with outcome
  responses,              \* per thread: local `responses`
  ret,                    \* per thread: what the call gave its caller
  removed,                \* per thread: receiver object deleted by disconnect
  new_receivers,          \* local `new_receivers` of the thread that compacts
  gone,                   \* history: receivers disconnected and not re-added
  banned,                 \* history: `gone` when the thread's dispatch began
  ops_left,               \* operations that may still be started
  active                  \* threads that issue calls

shared == << use_caching, receivers, sender_receivers_cache, _dead_receivers, lock >>
heap == << alive, finalizers, pending >>
locals == << pc, args, lookup_key, rlist, live, called, responses, ret, removed >>
history == << gone, banned >>
vars == << shared, heap, locals, history, ops_left, new_receivers, active >>

(* ------------------------------------------------------------- helpers *)
\* dispatcher.py:97-100 and 146-149
LookupKey(receiver, sender, dispatch_uid) ==
  IF dispatch_uid # 0 THEN << dispatch_uid, _make_id(sender) >>
  ELSE << _make_id(receiver), _make_id(sender) >>

\* dispatcher.py:102-113: weakref.ref(receiver) when weak, else the receiver
Handle(receiver, weak) == [weak |-> weak, obj |-> receiver]

\* r[1]() is None
IsDead(h) == h.weak /\ h.obj \notin alive

HasKey(recs, key) == \E i \in 1..Len(recs) : recs[i].key = key

\* index of the first entry with the key (0 when there is none)
FirstIndex(recs, key) ==
  IF HasKey(recs, key)
  THEN CHOOSE i \in 1..Len(recs) :
         recs[i].key = key /\ \A j \in 1..(i - 1) : recs[j].key # key
  ELSE 0

\* a deletion that takes the last entry instead of entry i
RemoveAtLast(recs, i) == SubSeq(recs, 1, Len(recs) - 1)

RemoveAt(recs, i) == [j \in 1..(Len(recs) - 1) |-> IF j < i THEN recs[j] ELSE recs[j + 1]]

\* a rebuild that drops every weak entry, dead or alive
CompactedWeak(recs) ==
  LET Keep(e) == ~e.h.weak IN SelectSeq(recs, Keep)

\* dispatcher.py:238-243: the loop of _clear_dead_receivers
Compacted(recs) ==
  LET Keep(e) == ~IsDead(e.h) IN SelectSeq(recs, Keep)

\* a scan that collects the matching handles last entry first
MatchingHandlesReversed(recs, sender) ==
  LET senderkey == _make_id(sender)
      Match(e) == e.key[2] = NONE_ID \/ e.key[2] = senderkey
      sel == SelectSeq(recs, Match)
  IN [i \in 1..Len(sel) |-> sel[Len(sel) + 1 - i].h]

\* dispatcher.py:262-266: the scan of _live_receivers
MatchingHandles(recs, sender) ==
  LET senderkey == _make_id(sender)
      Match(e) == e.key[2] = NONE_ID \/ e.key[2] = senderkey
      sel == SelectSeq(recs, Match)
  IN [i \in 1..Len(sel) |-> sel[i].h]

\* dispatcher.py:273-282: dereference the handles, drop the dead ones
Resolve(handles) ==
  LET Live(h) == ~IsDead(h)
      sel == SelectSeq(handles, Live)
  IN [i \in 1..Len(sel) |-> sel[i].obj]

\* WeakKeyDictionary.get / __setitem__ build weakref.ref(key): TypeError
\* for None.  The plain dict used without caching accepts any key.
CacheKeyFails(sender) == use_caching /\ sender = "None"

EmptyCache == [s \in Senders |-> Absent]

Idle(t) == pc[t] \in {"idle", "done"}

CanStart(t) == t \in active /\ Idle(t) /\ ops_left > 0

\* a fresh call frame for thread t
Frame(t, a, key, p, r) ==
  /\ args' = [args EXCEPT ![t] = a]
  /\ lookup_key' = [lookup_key EXCEPT ![t] = key]
  /\ pc' = [pc EXCEPT ![t] = p]
  /\ rlist' = [rlist EXCEPT ![t] = << >>]
  /\ live' = [live EXCEPT ![t] = << >>]
  /\ called' = [called EXCEPT ![t] = << >>]
  /\ responses' = [responses EXCEPT ![t] = << >>]
  /\ ret' = [ret EXCEPT ![t] = r]
  /\ removed' = [removed EXCEPT ![t] = "None"]
  /\ ops_left' = ops_left - 1

Goto(t, p) == pc' = [pc EXCEPT ![t] = p]

(* ---------------------------------------------------------------- Init *)
InitState ==
  /\ use_caching \in BOOLEAN
  /\ receivers = << >>
  /\ sender_receivers_cache = EmptyCache
  /\ _dead_receivers = FALSE
  /\ lock = "free"
  /\ alive = Receivers
  /\ finalizers = [r \in Receivers |-> 0]
  /\ pending = [r \in Receivers |-> 0]
  /\ pc = [t \in Threads |-> "idle"]
  /\ args = [t \in Threads |-> NoArgs]
  /\ lookup_key = [t \in Threads |-> NoKey]
  /\ rlist = [t \in Threads |-> << >>]
  /\ live = [t \in Threads |-> << >>]
  /\ called = [t \in Threads |-> << >>]
  /\ responses = [t \in Threads |-> << >>]
  /\ ret = [t \in Threads |-> NoRet]
  /\ removed = [t \in Threads |-> "None"]
  /\ gone = {}
  /\ banned = [t \in Threads |-> {}]
  /\ new_receivers = << >>

\* several threads call into the Signal
Init == InitState /\ active = Threads /\ ops_left = MaxOps

\* one thread calls into the Signal
SeqInit == InitState /\ active = {"t1"} /\ ops_left = MaxSeqOps

\* several threads call into the Signal, fewer calls
FairInit == InitState /\ active = Threads /\ ops_left = MaxFairOps

(* ------------------------------------------- steps under self.lock *)
\* a lock step that resets the flag and skips the rebuild of the table
AcquireSkipScan(t, scan, next) ==
  /\ lock = "free"
  /\ lock' = t
  /\ _dead_receivers' = FALSE
  /\ Goto(t, next)
  /\ UNCHANGED << use_caching, receivers, sender_receivers_cache,
                  heap, args, lookup_key, rlist, live, called, responses, ret,
                  removed, history, ops_left, new_receivers, active >>

\* `with self.lock:` followed by dispatcher.py:236-237, the test and the
\* reset of the flag by _clear_dead_receivers
Acquire(t, scan, next) ==
  /\ lock = "free"
  /\ lock' = t
  /\ IF _dead_receivers
     THEN _dead_receivers' = FALSE /\ Goto(t, scan)
     ELSE UNCHANGED _dead_receivers /\ Goto(t, next)
  /\ UNCHANGED << use_caching, receivers, sender_receivers_cache,
                  heap, args, lookup_key, rlist, live, called, responses, ret,
                  removed, history, ops_left, new_receivers, active >>

\* dispatcher.py:238-242: the loop that collects the entries to keep
_clear_dead_receivers(t, next) ==
  /\ new_receivers' = Compacted(receivers)
  /\ Goto(t, next)
  /\ UNCHANGED << shared, heap, args, lookup_key, rlist, live, called, responses,
                  ret, removed, history, ops_left, active >>

\* an assignment of the rebuilt table that resets the flag once more,
\* after the loop
AssignReceiversResetFlag(t, next) ==
  /\ receivers' = new_receivers
  /\ new_receivers' = << >>
  /\ _dead_receivers' = FALSE
  /\ Goto(t, next)
  /\ UNCHANGED << use_caching, sender_receivers_cache, lock,
                  heap, args, lookup_key, rlist, live, called, responses, ret,
                  removed, history, ops_left, active >>

\* dispatcher.py:243: self.receivers = new_receivers
AssignReceivers(t, next) ==
  /\ receivers' = new_receivers
  /\ new_receivers' = << >>
  /\ Goto(t, next)
  /\ UNCHANGED << use_caching, sender_receivers_cache, _dead_receivers, lock,
                  heap, args, lookup_key, rlist, live, called, responses, ret,
                  removed, history, ops_left, active >>

\* a return that leaves the cache as it is
KeptCache(cache) == cache

\* self.sender_receivers_cache.clear() as the last statement under the lock
ClearedCache(cache) == EmptyCache

(* ------------------------------------------------------------- connect *)
\* dispatcher.py:97-113: the key and the handle; weak=True registers
\* weakref.finalize(receiver, self._remove_receiver)
ConnectStart(t) ==
  /\ CanStart(t)
  /\ \E in \in ConnectInputs :
       /\ in[1] \in alive
       /\ Frame(t, [name |-> "connect", receiver |-> in[1], sender |-> in[2],
                    weak |-> in[3], uid |-> in[4]],
                LookupKey(in[1], in[2], in[4]), "c_lock", NoRet)
       /\ finalizers' = IF in[3] THEN [finalizers EXCEPT ![in[1]] = @ + 1]
                        ELSE finalizers
  /\ UNCHANGED << shared, alive, pending, history, new_receivers, active >>

\* dispatcher.py:115-116
ConnectLock(t) == pc[t] = "c_lock" /\ Acquire(t, "c_compact", "c_add")

\* dispatcher.py:116, the loop of _clear_dead_receivers
ConnectCompact(t) == pc[t] = "c_compact" /\ _clear_dead_receivers(t, "c_swap")

\* dispatcher.py:116, the last statement of _clear_dead_receivers
ConnectSwap(t) == pc[t] = "c_swap" /\ AssignReceivers(t, "c_add")

\* a connect that appends without looking for the key
ConnectedAlways(recs, key, handle) == Append(recs, [key |-> key, h |-> handle])

\* dispatcher.py:117-121: for ... break / else: append
Connected(recs, key, handle) ==
  IF HasKey(recs, key) THEN recs ELSE Append(recs, [key |-> key, h |-> handle])

ConnectAdd(t) ==
  /\ pc[t] = "c_add"
  /\ receivers' = Connected(receivers, lookup_key[t],
                            Handle(args[t].receiver, args[t].weak))
  /\ IF Len(receivers') > Len(receivers)
     THEN /\ gone' = gone \ {args[t].receiver}
          /\ banned' = [u \in Threads |-> banned[u] \ {args[t].receiver}]
     ELSE UNCHANGED history
  /\ Goto(t, "c_cache")
  /\ UNCHANGED << use_caching, sender_receivers_cache, _dead_receivers, lock,
                  heap, args, lookup_key, rlist, live, called, responses, ret,
                  removed, ops_left, new_receivers, active >>

\* dispatcher.py:122, then the lock is released and connect returns None
ConnectReturn(t) ==
  /\ pc[t] = "c_cache"
  /\ sender_receivers_cache' = ClearedCache(sender_receivers_cache)
  /\ lock' = "free"
  /\ ret' = [ret EXCEPT ![t] = Returned(FALSE, << >>)]
  /\ Goto(t, "done")
  /\ UNCHANGED << use_caching, receivers, _dead_receivers,
                  heap, args, lookup_key, rlist, live, called, responses,
                  removed, history, ops_left, new_receivers, active >>

(* ---------------------------------------------------------- disconnect *)
\* dispatcher.py:146-151.  The caller names the entry by a receiver it
\* still holds, or by dispatch_uid with receiver=None.
DisconnectStart(t) ==
  /\ CanStart(t)
  /\ \E in \in DisconnectInputs :
       /\ in[1] \in alive \cup {"None"}
       /\ Frame(t, [name |-> "disconnect", receiver |-> in[1], sender |-> in[2],
                    weak |-> TRUE, uid |-> in[3]],
                LookupKey(in[1], in[2], in[3]), "d_lock", NoRet)
  /\ UNCHANGED << shared, heap, history, new_receivers, active >>

\* dispatcher.py:152-153
DisconnectLock(t) == pc[t] = "d_lock" /\ Acquire(t, "d_compact", "d_del")

\* dispatcher.py:153, the loop of _clear_dead_receivers
DisconnectCompact(t) == pc[t] = "d_compact" /\ _clear_dead_receivers(t, "d_swap")

\* dispatcher.py:153, the last statement of _clear_dead_receivers
DisconnectSwap(t) == pc[t] = "d_swap" /\ AssignReceivers(t, "d_del")

\* a disconnect that finds the entry and leaves it in the table
DisconnectedNoop(recs, key) == recs

\* dispatcher.py:154-159: delete the first entry with the key
Disconnected(recs, key) ==
  IF HasKey(recs, key) THEN RemoveAt(recs, FirstIndex(recs, key)) ELSE recs

\* dispatcher.py:151-159; ret[t].bool is the local `disconnected`
DisconnectDel(t) ==
  /\ pc[t] = "d_del"
  /\ receivers' = Disconnected(receivers, lookup_key[t])
  /\ ret' = [ret EXCEPT ![t].bool = HasKey(receivers, lookup_key[t])]
  /\ removed' = [removed EXCEPT ![t] =
                   IF HasKey(receivers, lookup_key[t])
                   THEN receivers[FirstIndex(receivers, lookup_key[t])].h.obj
                   ELSE "None"]
  /\ Goto(t, "d_cache")
  /\ UNCHANGED << use_caching, sender_receivers_cache, _dead_receivers, lock,
                  heap, args, lookup_key, rlist, live, called, responses,
                  history, ops_left, new_receivers, active >>

\* dispatcher.py:160-161: clear the cache, release the lock,
\* return disconnected
DisconnectReturn(t) ==
  /\ pc[t] = "d_cache"
  /\ sender_receivers_cache' = ClearedCache(sender_receivers_cache)
  /\ lock' = "free"
  /\ ret' = [ret EXCEPT ![t].kind = "returned"]
  /\ gone' = IF /\ ret[t].bool
                /\ \A i \in 1..Len(receivers) :
                     receivers[i].h.obj = removed[t] => receivers[i].key = lookup_key[t]
             THEN gone \cup {removed[t]} ELSE gone
  /\ Goto(t, "done")
  /\ UNCHANGED << use_caching, receivers, _dead_receivers,
                  heap, args, lookup_key, rlist, live, called, responses,
                  removed, banned, ops_left, new_receivers, active >>

(* --------------------------------------------------- _live_receivers *)
\* what the caller of _live_receivers does with an empty or non-empty
\* result: has_listeners returns bool(...) (dispatcher.py:164), a dispatch
\* over no receivers returns [] (dispatcher.py:188-191, 223-232)
AfterResolve(t, list) ==
  /\ live' = [live EXCEPT ![t] = list]
  /\ IF args[t].name = "has_listeners"
     THEN ret' = [ret EXCEPT ![t] = Returned(list # << >>, << >>)] /\ Goto(t, "done")
     ELSE IF list = << >>
          THEN ret' = [ret EXCEPT ![t] = Returned(FALSE, << >>)] /\ Goto(t, "done")
          ELSE UNCHANGED ret /\ Goto(t, "invoke")

\* a raise that hands the pairs collected so far to the caller
RaiseKeeping(t, class, who) ==
  /\ ret' = [ret EXCEPT ![t] = [Raised(class, who) EXCEPT !.resp = responses[t]]]
  /\ responses' = responses
  /\ Goto(t, "done")

\* an exception leaves the call: the frame, with `responses`, is dropped
Raise(t, class, who) ==
  /\ ret' = [ret EXCEPT ![t] = Raised(class, who)]
  /\ responses' = [responses EXCEPT ![t] = << >>]
  /\ Goto(t, "done")

\* dispatcher.py:252-258: the lock-free look into the cache
LiveCache(t) ==
  /\ pc[t] = "lr_cache"
  /\ LET s == args[t].sender
         slot == sender_receivers_cache[s] IN
       IF use_caching /\ ~_dead_receivers
       THEN IF CacheKeyFails(s)
            THEN Raise(t, "TypeError", "None") /\ UNCHANGED << rlist, live >>
            ELSE IF slot = NO_RECEIVERS
            THEN AfterResolve(t, << >>) /\ UNCHANGED << rlist, responses >>
            ELSE IF slot.kind = "list"
            THEN /\ rlist' = [rlist EXCEPT ![t] = slot.list]
                 /\ Goto(t, "lr_deref")
                 /\ UNCHANGED << live, responses, ret >>
            ELSE Goto(t, "lr_lock") /\ UNCHANGED << rlist, live, responses, ret >>
       ELSE Goto(t, "lr_lock") /\ UNCHANGED << rlist, live, responses, ret >>
  /\ UNCHANGED << shared, heap, args, lookup_key, called, removed, history,
                  ops_left, new_receivers, active >>

\* dispatcher.py:260-261
LiveLock(t) == pc[t] = "lr_lock" /\ Acquire(t, "lr_compact", "lr_match")

\* dispatcher.py:261, the loop of _clear_dead_receivers
LiveCompact(t) == pc[t] = "lr_compact" /\ _clear_dead_receivers(t, "lr_swap")

\* dispatcher.py:261, the last statement of _clear_dead_receivers
LiveSwap(t) == pc[t] = "lr_swap" /\ AssignReceivers(t, "lr_match")

\* a resolution that keeps the lock when it leaves the scan
LiveMatchKeepLock(t) ==
  /\ pc[t] = "lr_match"
  /\ LET s == args[t].sender
         found == MatchingHandles(receivers, s) IN
       IF CacheKeyFails(s)
       THEN /\ Raise(t, "TypeError", "None")
            /\ UNCHANGED << sender_receivers_cache, rlist >>
       ELSE /\ rlist' = [rlist EXCEPT ![t] = found]
            /\ sender_receivers_cache' =
                 IF use_caching
                 THEN [sender_receivers_cache EXCEPT
                         ![s] = IF found = << >> THEN NO_RECEIVERS ELSE Cached(found)]
                 ELSE sender_receivers_cache
            /\ Goto(t, "lr_deref")
            /\ UNCHANGED << responses, ret >>
  /\ lock' = lock
  /\ UNCHANGED << use_caching, receivers, _dead_receivers, heap, args, lookup_key,
                  live, called, removed, history, ops_left, new_receivers, active >>

\* dispatcher.py:262-272: scan the table, store the handle list (or the
\* marker) in the cache, leave the with block
LiveMatch(t) ==
  /\ pc[t] = "lr_match"
  /\ LET s == args[t].sender
         found == MatchingHandles(receivers, s) IN
       IF CacheKeyFails(s)
       THEN /\ Raise(t, "TypeError", "None")
            /\ UNCHANGED << sender_receivers_cache, rlist >>
       ELSE /\ rlist' = [rlist EXCEPT ![t] = found]
            /\ sender_receivers_cache' =
                 IF use_caching
                 THEN [sender_receivers_cache EXCEPT
                         ![s] = IF found = << >> THEN NO_RECEIVERS ELSE Cached(found)]
                 ELSE sender_receivers_cache
            /\ Goto(t, "lr_deref")
            /\ UNCHANGED << responses, ret >>
  /\ lock' = "free"
  /\ UNCHANGED << use_caching, receivers, _dead_receivers, heap, args, lookup_key,
                  live, called, removed, history, ops_left, new_receivers, active >>

\* dispatcher.py:273-282
LiveResolve(t) ==
  /\ pc[t] = "lr_deref"
  /\ AfterResolve(t, Resolve(rlist[t]))
  /\ UNCHANGED << shared, heap, args, lookup_key, rlist, called, responses,
                  removed, history, ops_left, new_receivers, active >>

(* ------------------------------------------------------------- dispatch *)
\* dispatcher.py:184-186 and 217-219: the early return of send and
\* send_robust
DispatchStart(t, name) ==
  /\ CanStart(t)
  /\ \E s \in Senders :
       LET a == [name |-> name, receiver |-> "None", sender |-> s,
                 weak |-> FALSE, uid |-> 0] IN
       IF receivers = << >>
       THEN Frame(t, a, NoKey, "done", Returned(FALSE, << >>))
       ELSE IF CacheKeyFails(s)
       THEN Frame(t, a, NoKey, "done", Raised("TypeError", "None"))
       ELSE IF sender_receivers_cache[s] = NO_RECEIVERS
       THEN Frame(t, a, NoKey, "done", Returned(FALSE, << >>))
       ELSE Frame(t, a, NoKey, "lr_cache", NoRet)
  /\ banned' = [banned EXCEPT ![t] = gone]
  /\ UNCHANGED << shared, heap, gone, new_receivers, active >>

\* dispatcher.py:166
SendStart(t) == DispatchStart(t, "send")

\* dispatcher.py:193
SendRobustStart(t) == DispatchStart(t, "send_robust")

\* dispatcher.py:163-164
HasListenersStart(t) ==
  /\ CanStart(t)
  /\ \E s \in Senders :
       Frame(t, [name |-> "has_listeners", receiver |-> "None", sender |-> s,
                 weak |-> FALSE, uid |-> 0], NoKey, "lr_cache", NoRet)
  /\ UNCHANGED << shared, heap, history, new_receivers, active >>

\* the loop has called every receiver: return responses
Finish(t, resp) ==
  IF Len(called[t]) + 1 = Len(live[t])
  THEN ret' = [ret EXCEPT ![t] = Returned(FALSE, resp)] /\ Goto(t, "done")
  ELSE UNCHANGED << ret, pc >>

\* a send that records a receiver's error and goes on
SendInvokeSwallow(t) ==
  /\ pc[t] = "invoke" /\ args[t].name = "send"
  /\ \E o \in Outcomes :
       LET r == live[t][Len(called[t]) + 1] IN
       /\ called' = [called EXCEPT ![t] = Append(@, << r, o >>)]
       /\ responses' = [responses EXCEPT ![t] =
                          Append(@, << r, IF o = "ok" THEN "result" ELSE "error" >>)]
       /\ Finish(t, responses'[t])
  /\ UNCHANGED << shared, heap, args, lookup_key, rlist, live, removed, history,
                  ops_left, new_receivers, active >>

\* a loop of send that resolves the receivers again before every turn
SendInvokeRescan(t) ==
  /\ pc[t] = "invoke" /\ args[t].name = "send"
  /\ live' = [live EXCEPT ![t] = Resolve(MatchingHandles(receivers, args[t].sender))]
  /\ \E o \in Outcomes :
       IF Len(called[t]) < Len(live'[t])
       THEN LET r == live'[t][Len(called[t]) + 1] IN
            /\ called' = [called EXCEPT ![t] = Append(@, << r, o >>)]
            /\ IF o = "ok"
               THEN /\ responses' = [responses EXCEPT ![t] = Append(@, << r, "result" >>)]
                    /\ IF Len(called[t]) + 1 = Len(live'[t])
                       THEN ret' = [ret EXCEPT ![t] = Returned(FALSE, responses'[t])]
                            /\ Goto(t, "done")
                       ELSE UNCHANGED << ret, pc >>
               ELSE Raise(t, o, r)
       ELSE /\ ret' = [ret EXCEPT ![t] = Returned(FALSE, responses[t])]
            /\ Goto(t, "done")
            /\ UNCHANGED << called, responses >>
  /\ UNCHANGED << shared, heap, args, lookup_key, rlist, removed, history,
                  ops_left, new_receivers, active >>

\* dispatcher.py:188-191: one turn of the loop of send
SendInvoke(t) ==
  /\ pc[t] = "invoke" /\ args[t].name = "send"
  /\ \E o \in Outcomes :
       LET r == live[t][Len(called[t]) + 1] IN
       /\ called' = [called EXCEPT ![t] = Append(@, << r, o >>)]
       /\ IF o = "ok"
          THEN /\ responses' = [responses EXCEPT ![t] = Append(@, << r, "result" >>)]
               /\ Finish(t, responses'[t])
          ELSE Raise(t, o, r)
  /\ UNCHANGED << shared, heap, args, lookup_key, rlist, live, removed, history,
                  ops_left, new_receivers, active >>

\* a send_robust that lets a receiver's Exception out
SendRobustInvokePropagate(t) ==
  /\ pc[t] = "invoke" /\ args[t].name = "send_robust"
  /\ \E o \in Outcomes :
       LET r == live[t][Len(called[t]) + 1] IN
       /\ called' = [called EXCEPT ![t] = Append(@, << r, o >>)]
       /\ IF o = "ok"
          THEN /\ responses' = [responses EXCEPT ![t] = Append(@, << r, "result" >>)]
               /\ Finish(t, responses'[t])
          ELSE Raise(t, o, r)
  /\ UNCHANGED << shared, heap, args, lookup_key, rlist, live, removed, history,
                  ops_left, new_receivers, active >>

\* a send_robust that catches a receiver's Exception and records no pair
SendRobustInvokeNoPair(t) ==
  /\ pc[t] = "invoke" /\ args[t].name = "send_robust"
  /\ \E o \in Outcomes :
       LET r == live[t][Len(called[t]) + 1] IN
       /\ called' = [called EXCEPT ![t] = Append(@, << r, o >>)]
       /\ IF o = "ok"
          THEN /\ responses' = [responses EXCEPT ![t] = Append(@, << r, "result" >>)]
               /\ Finish(t, responses'[t])
          ELSE IF o = "Exception"
          THEN /\ responses' = responses
               /\ Finish(t, responses[t])
          ELSE Raise(t, o, r)
  /\ UNCHANGED << shared, heap, args, lookup_key, rlist, live, removed, history,
                  ops_left, new_receivers, active >>

\* dispatcher.py:223-232: one turn of the loop of send_robust
SendRobustInvoke(t) ==
  /\ pc[t] = "invoke" /\ args[t].name = "send_robust"
  /\ \E o \in Outcomes :
       LET r == live[t][Len(called[t]) + 1] IN
       /\ called' = [called EXCEPT ![t] = Append(@, << r, o >>)]
       /\ IF o = "ok"
          THEN /\ responses' = [responses EXCEPT ![t] = Append(@, << r, "result" >>)]
               /\ Finish(t, responses'[t])
          ELSE IF o = "Exception"
          THEN /\ responses' = [responses EXCEPT ![t] = Append(@, << r, "error" >>)]
               /\ Finish(t, responses'[t])
          ELSE Raise(t, o, r)
  /\ UNCHANGED << shared, heap, args, lookup_key, rlist, live, removed, history,
                  ops_left, new_receivers, active >>

(* ------------------------------------------------- garbage collection *)
Range(f) == {f[i] : i \in DOMAIN f}

\* a strong reference to r exists: a strong handle in the table or in a
\* cached list, the frame of a call in progress, or what a dispatch gave
\* its caller (the pairs, or the traceback), kept until its next call
StronglyHeld(r) ==
  \/ \E i \in 1..Len(receivers) : receivers[i].h = Handle(r, FALSE)
  \/ \E s \in Senders : Handle(r, FALSE) \in Range(sender_receivers_cache[s].list)
  \/ \E t \in Threads : /\ ~Idle(t)
                        /\ \/ args[t].receiver = r
                           \/ r \in Range(live[t])
                           \/ Handle(r, FALSE) \in Range(rlist[t])
  \/ \E t \in Threads : /\ pc[t] = "done"
                        /\ args[t].name \in {"send", "send_robust"}
                        /\ r \in Range(live[t])

\* the receiver becomes unreachable: its weak handles resolve to None and
\* its finalize callbacks become due (registered at dispatcher.py:111)
Die(r) ==
  /\ r \in alive /\ finalizers[r] > 0 /\ ~StronglyHeld(r)
  /\ alive' = alive \ {r}
  /\ pending' = [pending EXCEPT ![r] = finalizers[r]]
  /\ finalizers' = [finalizers EXCEPT ![r] = 0]
  /\ UNCHANGED << shared, locals, history, ops_left, new_receivers, active >>

\* a callback that waits for the lock to be free and rebuilds the table
\* itself
_remove_receiver_eager(r) ==
  /\ pending[r] > 0 /\ lock = "free"
  /\ pending' = [pending EXCEPT ![r] = @ - 1]
  /\ _dead_receivers' = TRUE
  /\ receivers' = Compacted(receivers)
  /\ UNCHANGED << use_caching, sender_receivers_cache, lock, alive,
                  finalizers, locals, history, ops_left, new_receivers, active >>

\* dispatcher.py:284-291
_remove_receiver(r) ==
  /\ pending[r] > 0
  /\ pending' = [pending EXCEPT ![r] = @ - 1]
  /\ _dead_receivers' = TRUE
  /\ UNCHANGED << use_caching, receivers, sender_receivers_cache, lock, alive,
                  finalizers, locals, history, ops_left, new_receivers, active >>

(* ------------------------------------------------------ specification *)
Next ==
  \/ \E t \in Threads : ConnectStart(t)
  \/ \E t \in Threads : ConnectLock(t)
  \/ \E t \in Threads : ConnectCompact(t)
  \/ \E t \in Threads : ConnectSwap(t)
  \/ \E t \in Threads : ConnectAdd(t)
  \/ \E t \in Threads : ConnectReturn(t)
  \/ \E t \in Threads : DisconnectStart(t)
  \/ \E t \in Threads : DisconnectLock(t)
  \/ \E t \in Threads : DisconnectCompact(t)
  \/ \E t \in Threads : DisconnectSwap(t)
  \/ \E t \in Threads : DisconnectDel(t)
  \/ \E t \in Threads : DisconnectReturn(t)
  \/ \E t \in Threads : HasListenersStart(t)
  \/ \E t \in Threads : SendStart(t)
  \/ \E t \in Threads : SendRobustStart(t)
  \/ \E t \in Threads : LiveCache(t)
  \/ \E t \in Threads : LiveLock(t)
  \/ \E t \in Threads : LiveCompact(t)
  \/ \E t \in Threads : LiveSwap(t)
  \/ \E t \in Threads : LiveMatch(t)
  \/ \E t \in Threads : LiveResolve(t)
  \/ \E t \in Threads : SendInvoke(t)
  \/ \E t \in Threads : SendRobustInvoke(t)
  \/ \E r \in Receivers : Die(r)
  \/ \E r \in Receivers : _remove_receiver(r)

Spec == Init /\ [][Next]_vars

SeqSpec == SeqInit /\ [][Next]_vars

\* the steps of thread t that take the lock or run under it: a thread
\* blocked in `with self.lock:` enters once the lock stays free, and the
\* statements under the lock (dispatcher.py:116-122, 153-160, 261-272) are
\* straight-line code that calls nothing that blocks
LockStep(t) ==
  \/ ConnectLock(t) \/ ConnectCompact(t) \/ ConnectSwap(t) \/ ConnectAdd(t)
  \/ ConnectReturn(t)
  \/ DisconnectLock(t) \/ DisconnectCompact(t) \/ DisconnectSwap(t)
  \/ DisconnectDel(t) \/ DisconnectReturn(t)
  \/ LiveLock(t) \/ LiveCompact(t) \/ LiveSwap(t) \/ LiveMatch(t)

FairSpec == FairInit /\ [][Next]_vars /\ \A t \in Threads : WF_vars(LockStep(t))


(* ============================================================== claims *)
Count(seq, x) == Cardinality({i \in DOMAIN seq : seq[i] = x})

CalledObjs(t) == [i \in DOMAIN called[t] |-> called[t][i][1]]

NoReceiverRaised(t) == \A i \in DOMAIN called[t] : called[t][i][2] = "ok"

DoneOf(t, name) == pc[t] = "done" /\ args[t].name = name

\* the table entries registered for sender None or for s whose receiver
\* is alive
LiveEntries(s) ==
  {i \in 1..Len(receivers) :
     /\ receivers[i].key[2] \in {Addr["None"], Addr[s]}
     /\ (receivers[i].h.weak => receivers[i].h.obj \in alive)}

(* C1: the multiset of receivers invoked by a send(sender) in which no
   receiver raises is exactly the multiset of live receivers whose entries
   are in the table with registered sender None or `sender`, with caching
   enabled or disabled. *)
C1_CacheCorrectness ==
  \A t \in Threads :
    (DoneOf(t, "send") /\ NoReceiverRaised(t))
      => \A r \in Receivers :
           Count(CalledObjs(t), r) =
             Cardinality({i \in LiveEntries(args[t].sender) : receivers[i].h.obj = r})

NoDuplicateKey ==
  \A i, j \in 1..Len(receivers) : receivers[i].key = receivers[j].key => i = j

DuplicateConnectIsNoOp ==
  \A t \in Threads :
    (pc[t] = "c_add" /\ pc'[t] = "c_cache" /\ HasKey(receivers, lookup_key[t]))
      => receivers' = receivers

(* C2: the table never holds two entries with the same lookup key, and a
   connect that finds its key in the table adds no entry and leaves the
   entry of that key, with its handle, as it is. *)
C2_OneEntryPerKey == [] NoDuplicateKey /\ [][DuplicateConnectIsNoOp]_vars

\* a connect under uid 101 found the key held by another receiver and
\* left that entry alone
C2_Witness ==
  \E t \in Threads :
    /\ pc[t] = "c_cache" /\ Len(receivers) = 1
    /\ receivers[1].key = lookup_key[t]
    /\ receivers[1].h.obj # args[t].receiver

DisconnectStepExact ==
  \A t \in Threads :
    /\ (pc[t] = "d_del" /\ pc'[t] = "d_cache")
         => LET k == lookup_key[t]
                Other(e) == e.key # k
                present == \E i \in 1..Len(receivers) : receivers[i].key = k
            IN /\ ret'[t].bool = present
               /\ receivers' = SelectSeq(receivers, Other)
               /\ present => Len(receivers') = Len(receivers) - 1
               /\ ~present => receivers' = receivers
    /\ (pc[t] = "d_cache" /\ pc'[t] = "done")
         => /\ ret'[t].kind = "returned" /\ ret'[t].bool = ret[t].bool
            /\ receivers' = receivers

(* C3: disconnect returns true exactly when an entry with its lookup key
   is in the table when it looks, and then removes that one entry and no
   other; otherwise it returns false and leaves the table as it is. *)
C3_DisconnectResult == [][DisconnectStepExact]_vars

\* two disconnects of the same key have returned, one true and one false
C3_Witness ==
  \E t, u \in Threads :
    /\ t # u /\ DoneOf(t, "disconnect") /\ DoneOf(u, "disconnect")
    /\ lookup_key[t] = lookup_key[u]
    /\ ret[t].bool /\ ~ret[u].bool

(* C4: a send or send_robust that starts after disconnect returned true
   for a receiver's key never invokes that receiver, unless the receiver
   has been connected again or is still registered under another key. *)
C4_NoInvocationAfterDisconnect ==
  \A t \in Threads : \A i \in DOMAIN called[t] : called[t][i][1] \notin banned[t]

\* a dispatch on a caching Signal that began after a disconnect returned
\* true has invoked the receivers that remain
C4_Witness ==
  \E t \in Threads :
    /\ pc[t] = "done" /\ args[t].name \in {"send", "send_robust"}
    /\ use_caching /\ banned[t] # {} /\ called[t] # << >>

(* C5: in a send(sender) in which no receiver raises, a live receiver
   registered with sender None is invoked for every sender (None
   included), a live receiver registered with sender S1 is invoked by
   send(S1), and a receiver is invoked only if one of its entries is
   registered with None or with `sender`. *)
C5_SenderMatching ==
  \A t \in Threads :
    (DoneOf(t, "send") /\ NoReceiverRaised(t))
      => LET s == args[t].sender
             invoked == {called[t][i][1] : i \in DOMAIN called[t]}
         IN /\ \A i \in 1..Len(receivers) :
                 (/\ ~IsDead(receivers[i].h)
                  /\ receivers[i].key[2] \in {Addr["None"], Addr[s]})
                   => receivers[i].h.obj \in invoked
            /\ \A r \in invoked :
                 \E i \in 1..Len(receivers) :
                   /\ receivers[i].h.obj = r
                   /\ receivers[i].key[2] \in {Addr["None"], Addr[s]}

(* C6: send is fail-fast: the receivers are invoked in the order of the
   resolved list, one invocation each; the first that raises ends the
   call with that very error, and no later receiver is invoked. *)
C6_SendFailFast ==
  \A t \in Threads :
    args[t].name = "send"
      => \A i \in DOMAIN called[t] :
           /\ i <= Len(live[t]) /\ called[t][i][1] = live[t][i]
           /\ called[t][i][2] # "ok"
                => /\ i = Len(called[t])
                   /\ pc[t] = "done"
                   /\ ret[t].kind = "raised"
                   /\ ret[t].err = << called[t][i][2], called[t][i][1] >>

\* of three resolved receivers the second raised and the third was not
\* invoked
C6_Witness ==
  \E t \in Threads :
    /\ DoneOf(t, "send") /\ Len(live[t]) = 3 /\ Len(called[t]) = 2
    /\ called[t][2][2] = "Exception" /\ ret[t].kind = "raised"

PairsBeforeFailure(t) ==
  [i \in 1..(Len(called[t]) - 1) |-> << called[t][i][1], "result" >>]

(* C7 as stated: when a receiver raises during send, the caller obtains
   the pairs of the receivers invoked before the failure. *)
C7_PartialResultReturned ==
  \A t \in Threads :
    (DoneOf(t, "send") /\ ~NoReceiverRaised(t))
      => ret[t].resp = PairsBeforeFailure(t)

(* C7 amended: when a receiver raises during send, the call ends with the
   error and returns nothing: the pairs collected for the receivers
   invoked before the failure are dropped with the call. *)
C7_NoResultOnRaise ==
  \A t \in Threads :
    (DoneOf(t, "send") /\ ~NoReceiverRaised(t))
      => ret[t].kind = "raised" /\ ret[t].resp = << >> /\ responses[t] = << >>

\* A returned, then B raised
C7_Witness ==
  \E t \in Threads :
    /\ DoneOf(t, "send") /\ Len(called[t]) >= 2
    /\ called[t][1] = << "A", "ok" >> /\ called[t][2][2] # "ok"

RobustPairs(t) ==
  [i \in 1..Len(live[t]) |->
     << live[t][i], IF called[t][i][2] = "ok" THEN "result" ELSE "error" >>]

(* C8 as stated: send_robust attempts every resolved receiver whatever
   the earlier receivers raised, and returns one pair per resolved
   receiver. *)
C8_RobustAttemptsAll ==
  \A t \in Threads :
    (DoneOf(t, "send_robust") /\ live[t] # << >>)
      => /\ CalledObjs(t) = live[t]
         /\ ret[t].kind = "returned" /\ ret[t].resp = RobustPairs(t)

(* C8 amended: send_robust attempts every resolved receiver whatever
   Exception the earlier receivers raised, and returns one pair per
   resolved receiver, in order, with the result of a receiver that
   returned and the error of one that raised an Exception; a receiver
   raising outside Exception ends the dispatch. *)
C8_RobustAttemptsAllExceptions ==
  \A t \in Threads :
    (/\ DoneOf(t, "send_robust") /\ live[t] # << >>
     /\ \A i \in DOMAIN called[t] : called[t][i][2] # "BaseException")
      => /\ CalledObjs(t) = live[t]
         /\ ret[t].kind = "returned" /\ ret[t].resp = RobustPairs(t)

\* [A, B, C] with B raising an Exception
C8_Witness ==
  \E t \in Threads :
    /\ DoneOf(t, "send_robust") /\ live[t] = << "A", "B", "C" >>
    /\ ret[t].resp = << << "A", "result" >>, << "B", "error" >>, << "C", "result" >> >>

(* C9 as stated: whatever a receiver raises during the dispatch,
   send_robust returns normally. *)
C9_RobustNeverPropagates ==
  \A t \in Threads :
    (DoneOf(t, "send_robust") /\ called[t] # << >>) => ret[t].kind = "returned"

(* C9 amended: send_robust never propagates an Exception raised by a
   receiver: what leaves send_robust from a receiver is only an exception
   outside Exception (a BaseException), raised by the last receiver it
   invoked. *)
C9_RobustCatchesExceptions ==
  \A t \in Threads :
    args[t].name = "send_robust"
      => /\ \A i \in DOMAIN called[t] :
              called[t][i][2] = "Exception" => ret[t].err # << "Exception", called[t][i][1] >>
         /\ (pc[t] = "done" /\ called[t] # << >> /\ ret[t].kind = "raised")
              => /\ called[t][Len(called[t])][2] = "BaseException"
                 /\ ret[t].err = << "BaseException", called[t][Len(called[t])][1] >>
         /\ (pc[t] = "done" /\ called[t] # << >>
               /\ \A i \in DOMAIN called[t] : called[t][i][2] # "BaseException")
              => ret[t].kind = "returned"

\* the last receiver raised an Exception and send_robust returned
C9_Witness ==
  \E t \in Threads :
    /\ DoneOf(t, "send_robust") /\ ret[t].kind = "returned"
    /\ called[t] # << >> /\ called[t][Len(called[t])][2] = "Exception"

HasListenersEnds(t) ==
  /\ args[t].name = "has_listeners"
  /\ pc[t] \in {"lr_cache", "lr_match", "lr_deref"} /\ pc'[t] = "done"

(* C10: once a weakly connected receiver is dead, no send or send_robust
   invokes it, and has_listeners(sender) answers false when no live
   receiver matches the sender, with caching enabled or disabled. *)
C10_WeakLifecycle ==
  [][\A t \in Threads :
       /\ \A i \in DOMAIN called'[t] : called'[t][i][1] \in alive'
       /\ (HasListenersEnds(t) /\ alive # Receivers
             /\ LiveEntries(args[t].sender) = {})
            => ret'[t] = Returned(FALSE, << >>)]_vars

RECURSIVE IsSubseq(_, _)
\* a is b with some elements left out
IsSubseq(a, b) ==
  IF a = << >> THEN TRUE
  ELSE IF b = << >> THEN FALSE
  ELSE IF Head(a) = Head(b) THEN IsSubseq(Tail(a), Tail(b))
  ELSE IsSubseq(a, Tail(b))

\* the handles of the table entries registered for None or for s, by
\* increasing index
TableSlice(s) ==
  LET idx == {i \in 1..Len(receivers) : receivers[i].key[2] \in {Addr["None"], Addr[s]}}
      nth(n) == CHOOSE i \in idx : Cardinality({j \in idx : j <= i}) = n
  IN [n \in 1..Cardinality(idx) |-> receivers[nth(n)].h]

ObjsOf(handles) == [i \in DOMAIN handles |-> handles[i].obj]

\* a step changes the table only by appending one entry at the end or by
\* leaving entries out
TableOrderKept ==
  \/ IsSubseq(receivers', receivers)
  \/ /\ Len(receivers') = Len(receivers) + 1
     /\ SubSeq(receivers', 1, Len(receivers)) = receivers

\* the handle list a resolution takes: from the table, the matching
\* entries by increasing index; from the cache, a list whose live
\* receivers stand in the order of the table
SnapshotInTableOrder ==
  \A t \in Threads :
    /\ (pc[t] = "lr_match" /\ pc'[t] = "lr_deref")
         => rlist'[t] = TableSlice(args[t].sender)
    /\ (pc[t] = "lr_cache" /\ pc'[t] = "lr_deref")
         => LET c == Resolve(rlist'[t])
                tb == Resolve(TableSlice(args[t].sender))
            IN IsSubseq(c, tb) \/ IsSubseq(tb, c)

\* the receivers invoked so far are the first receivers of the resolved
\* list, which keeps the order of the handle list
InvokedInSnapshotOrder ==
  \A t \in Threads :
    args[t].name \in {"send", "send_robust"}
      => /\ Len(called[t]) <= Len(live[t])
         /\ CalledObjs(t) = SubSeq(live[t], 1, Len(called[t]))
         /\ IsSubseq(live[t], ObjsOf(rlist[t]))

(* C11: within one send or send_robust the receivers are invoked in the
   order of the handle list the call resolved, which is the order of the
   matching entries in the table; the table order is the order of the
   connects that appended the entries, since connect appends at the end
   and disconnect and compaction only leave entries out. *)
C11_TableOrder ==
  [] InvokedInSnapshotOrder /\ [][SnapshotInTableOrder /\ TableOrderKept]_vars

\* B was connected weakly and died; after compaction the send for s1
\* invoked A, then C, the order of their connects
C11_Witness ==
  \E t \in Threads :
    /\ DoneOf(t, "send") /\ args[t].sender = "s1"
    /\ CalledObjs(t) = << "A", "C" >>
    /\ "B" \notin alive /\ Len(receivers) = 2

\* positions of a thread blocked in `with self.lock:`
WaitPcs == {"c_lock", "d_lock", "lr_lock"}

\* positions inside a `with self.lock:` block
LockedPcs == {"c_compact", "c_swap", "c_add", "c_cache",
              "d_compact", "d_swap", "d_del", "d_cache",
              "lr_compact", "lr_swap", "lr_match"}

\* the lock is held exactly by a thread inside a with block: never by a
\* thread that dereferences handles, invokes receivers or has returned
LockOnlyInCriticalSection ==
  /\ lock \in Threads \cup {"free"}
  /\ \A t \in Threads : (lock = t) <=> (pc[t] \in LockedPcs)

(* C12: the lock is never held while send or send_robust invokes a
   receiver (it is held only inside the with blocks), every holder
   releases it, and no thread waits for it forever: a call made on the
   Signal while a receiver runs, by the receiver or by another thread,
   gets the lock. *)
C12_LockDiscipline ==
  /\ [] LockOnlyInCriticalSection
  /\ (lock # "free") ~> (lock = "free")
  /\ \A t \in Threads : (pc[t] \in WaitPcs) ~> (pc[t] \notin WaitPcs)

\* one thread is in the loop of send with a receiver to invoke while
\* another thread holds the lock inside connect
C12_Witness ==
  \E t, u \in Threads :
    /\ pc[t] = "invoke" /\ args[t].name = "send" /\ Len(called[t]) < Len(live[t])
    /\ lock = u /\ args[u].name = "connect"

\* the steps that deliver a death notification: the only steps that
\* lower `pending`
CallbackStep == \E r \in Receivers : pending'[r] < pending[r]

CallbackOnlySetsFlag ==
  CallbackStep
    => /\ _dead_receivers' = TRUE
       /\ UNCHANGED << use_caching, receivers, sender_receivers_cache, lock, locals,
                       new_receivers >>

\* a notification that is due can be delivered in the state as it is,
\* whoever holds the lock
CallbackNeverBlocked ==
  \A r \in Receivers : pending[r] > 0 => ENABLED _remove_receiver(r)

(* C13: the death-notification callback only sets the dead-receivers
   flag: it changes neither the table nor the cache, never takes or waits
   for the lock, and can run in every state in which it is due, also
   while the calling thread is inside a with block. *)
C13_CallbackOnlyFlags == [] CallbackNeverBlocked /\ [][CallbackOnlySetsFlag]_vars

\* the flag is set while the only thread holds the lock: the lock step
\* reset the flag, so the callback ran inside the with block
C13_Witness ==
  /\ lock = "t1" /\ pc["t1"] \in LockedPcs /\ _dead_receivers
  /\ \E i \in 1..Len(receivers) : IsDead(receivers[i].h)

\* thread t takes the step of disconnect that scans the table for its key
DelStep(t) == pc[t] = "d_del" /\ pc'[t] = "d_cache"

\* the entry disconnect finds under its key holds a dead weak handle
FindsDeadEntry(t) ==
  /\ HasKey(receivers, lookup_key[t])
  /\ IsDead(receivers[FirstIndex(receivers, lookup_key[t])].h)

DisconnectNeverFails ==
  \A t \in Threads : DoneOf(t, "disconnect") => ret[t].kind = "returned"

(* C14 as stated: a disconnect for the key of a weakly connected receiver
   that has died returns false: it never finds the dead entry in the
   table. *)
C14_DeadDisconnectFalse ==
  [][\A t \in Threads : (DelStep(t) /\ FindsDeadEntry(t)) => ~ret'[t].bool]_vars

(* C14 amended: a disconnect for the key of a weakly connected receiver
   that has died never fails.  It finds the dead entry only when the
   death notification had not been delivered when disconnect took the
   lock (it is still due, or it has set the flag since); it then removes
   the dead entry and returns true.  Once the notification was delivered
   before the lock was taken, compaction has removed the entry and
   disconnect returns false. *)
C14_FalseOnceNotified ==
  /\ [] DisconnectNeverFails
  /\ [][\A t \in Threads :
          DelStep(t)
            => /\ FindsDeadEntry(t)
                    => LET e == receivers[FirstIndex(receivers, lookup_key[t])]
                       IN /\ pending[e.h.obj] > 0 \/ _dead_receivers
                          /\ ret'[t].bool
                          /\ ~HasKey(receivers', lookup_key[t])
               /\ ~HasKey(receivers, lookup_key[t]) => ~ret'[t].bool]_vars

\* C was connected weakly under uid 101 and died, its notification was
\* delivered, and the disconnect by uid that followed compacted the
\* table and returned false
C14_Witness ==
  \E t \in Threads :
    /\ DoneOf(t, "disconnect") /\ lookup_key[t] = << 101, Addr["s1"] >>
    /\ ~ret[t].bool /\ "C" \notin alive /\ pending["C"] = 0
    /\ receivers = << >> /\ ops_left = MaxOps - 2

\* thread t takes a step of a call of has_listeners
HasListenersStep(t) == args'[t].name = "has_listeners" /\ pc'[t] # pc[t]

\* the table without the entries whose weak handle is dead
LiveOnly(recs) ==
  LET Kept(e) == ~e.h.weak \/ e.h.obj \in alive IN SelectSeq(recs, Kept)

HasListenersAnswer(t) ==
  (HasListenersStep(t) /\ pc'[t] = "done")
    => \/ ret'[t].kind = "returned" /\ (ret'[t].bool <=> live'[t] # << >>)
       \/ ret'[t].kind = "raised" /\ ret'[t].err[1] = "TypeError"

(* C15 as stated: has_listeners is a pure read: no step of it changes the
   table. *)
C15_HasListenersPureRead ==
  [][\A t \in Threads : HasListenersStep(t) => receivers' = receivers]_vars

(* C15 amended: has_listeners returns true iff the resolution yields a
   non-empty list, and it leaves every entry with a live or strong handle
   in the table, in order; it is not a pure read: when the flag is set it
   compacts the table, removing the entries whose weak handle is dead. *)
C15_HasListenersKeepsLiveEntries ==
  [][\A t \in Threads :
       /\ HasListenersAnswer(t)
       /\ HasListenersStep(t)
            => \/ receivers' = receivers
               \/ /\ pc[t] = "lr_swap"
                  /\ IsSubseq(receivers', receivers)
                  /\ LiveOnly(receivers') = LiveOnly(receivers)]_vars

\* the second call of the behaviour was a has_listeners; it removed the
\* dead entry of the weakly connected receiver and answered false
C15_Witness ==
  \E t \in Threads :
    /\ DoneOf(t, "has_listeners") /\ ret[t] = Returned(FALSE, << >>)
    /\ ops_left = MaxSeqOps - 2 /\ alive # Receivers
    /\ receivers = << >> /\ ~_dead_receivers

\* thread t ends a call of connect or disconnect
MutatorEnds(t) == args[t].name \in {"connect", "disconnect"} /\ pc[t] # "done" /\ pc'[t] = "done"

(* C16: every connect and every disconnect ends by releasing the lock it
   holds with the cache holding no entry for any sender, the duplicate-key
   connect that added nothing and the disconnect that removed nothing
   included. *)
C16_CacheInvalidated ==
  [][\A t \in Threads :
       MutatorEnds(t)
         => /\ lock = t /\ lock' = "free"
            /\ \A s \in Senders : sender_receivers_cache'[s].kind = "absent"]_vars

\* the third call of the behaviour is a connect that found its key held
\* by another receiver; it is about to clear a cache that holds a list
\* for s1
C16_Witness ==
  \E t \in Threads :
    /\ pc[t] = "c_cache" /\ Len(receivers) = 1 /\ ops_left = MaxOps - 3
    /\ receivers[1].key = lookup_key[t] /\ receivers[1].h.obj # args[t].receiver
    /\ sender_receivers_cache["s1"].kind = "list"

Dispatching(t) == args[t].name \in {"send", "send_robust"}

\* a pass in progress has a receiver left to invoke
PassBounded ==
  \A t \in Threads :
    Dispatching(t)
      => /\ Len(called[t]) <= Len(live[t])
         /\ pc[t] = "invoke" => Len(called[t]) < Len(live[t])

\* once the handle list is taken no step changes it, and once it is
\* resolved no step changes the resolved list; a turn of the loop invokes
\* the next receiver of that list, and the turn that invokes the last one
\* ends the call
SnapshotFixed ==
  \A t \in Threads :
    Dispatching(t)
      => /\ pc[t] = "lr_deref"
              => /\ rlist'[t] = rlist[t]
                 /\ pc'[t] # "lr_deref" => IsSubseq(live'[t], ObjsOf(rlist[t]))
         /\ pc[t] = "invoke"
              => /\ rlist'[t] = rlist[t] /\ live'[t] = live[t]
                 /\ pc'[t] \in {"invoke", "done"}
                 /\ \/ called'[t] = called[t] /\ pc'[t] = pc[t]
                    \/ /\ Len(called'[t]) = Len(called[t]) + 1
                       /\ SubSeq(called'[t], 1, Len(called[t])) = called[t]
                       /\ called'[t][Len(called'[t])][1] = live[t][Len(called'[t])]
                       /\ Len(called'[t]) = Len(live[t]) => pc'[t] = "done"

(* C17: a dispatch is a single pass over a snapshot: the handle list is
   taken and resolved before the first invocation, no connect or
   disconnect by any thread changes it afterwards, every turn of the loop
   invokes the next receiver of the resolved list, each position once,
   and the call ends with the last position at the latest; a receiver
   whose entry is appended during the pass is not in the list and is not
   invoked by it. *)
C17_SinglePass == [] PassBounded /\ [][SnapshotFixed]_vars

\* a send for s1 is between two invocations while the connect of another
\* thread has appended an entry that matches s1 and is not in its list
C17_Witness ==
  \E t, u \in Threads :
    /\ pc[t] = "invoke" /\ args[t].name = "send" /\ called[t] # << >>
    /\ DoneOf(u, "connect")
    /\ args[u].receiver \notin Range(live[t])
    /\ \E i \in 1..Len(receivers) :
         /\ receivers[i].key = lookup_key[u] /\ receivers[i].h.obj = args[u].receiver
         /\ receivers[i].key[2] \in {Addr["None"], Addr[args[t].sender]}

\* the handles of a list that are not dead
LiveHandles(handles) ==
  LET Kept(h) == ~h.weak \/ h.obj \in alive IN SelectSeq(handles, Kept)

\* the cache slot of sender s agrees with the table
SlotCoherent(s) ==
  LET slot == sender_receivers_cache[s]
      tb == TableSlice(s)
  IN /\ slot = NO_RECEIVERS => tb = << >>
     /\ slot.kind = "list"
          => /\ slot.list # << >>
             /\ IsSubseq(tb, slot.list)
             /\ LiveHandles(slot.list) = LiveHandles(tb)

(* C18: with caching enabled, in every state in which the lock is free,
   a cache slot holding NO_RECEIVERS for s means that no table entry is
   registered for None or for s, and a slot holding a list for s holds,
   in table order, the handles of the matching table entries and, beyond
   them, only dead handles. *)
C18_CacheCoherence ==
  (use_caching /\ lock = "free") => \A s \in Senders : SlotCoherent(s)

\* the lock is free and the list cached for s1 holds a dead handle whose
\* entry a resolution for another sender compacted out of the table
C18_Witness ==
  /\ use_caching /\ lock = "free"
  /\ sender_receivers_cache["s1"].kind = "list"
  /\ sender_receivers_cache["s2"].kind = "list"
  /\ Len(sender_receivers_cache["s1"].list) > Len(TableSlice("s1"))

\* thread t takes the step of connect that looks for its key and finds
\* it held by an entry whose weak receiver has died
ConnectFindsDeadEntry(t) ==
  /\ args[t].name = "connect" /\ pc[t] = "c_add" /\ pc'[t] = "c_cache"
  /\ HasKey(receivers, lookup_key[t])
  /\ IsDead(receivers[FirstIndex(receivers, lookup_key[t])].h)

(* C19: an entry under the call's lookup key whose weak receiver has died
   and that was not compacted never makes connect ignore the receiver it
   was given: after connect has looked for its key, and so when it
   returns, the table holds under that key an entry whose handle resolves
   to a live receiver, whenever the death notification is delivered. *)
C19_ConnectTakesEffect ==
  [][\A t \in Threads :
       ConnectFindsDeadEntry(t)
         => \E i \in 1..Len(receivers') :
              /\ receivers'[i].key = lookup_key[t]
              /\ ~receivers'[i].h.weak \/ receivers'[i].h.obj \in alive']_vars

\* positions between the reset of the flag and the assignment of the
\* rebuilt table
CompactPcs == {"c_compact", "c_swap", "d_compact", "d_swap", "lr_compact", "lr_swap"}

CompactionInProgress == \E t \in Threads : pc[t] \in CompactPcs

\* an entry whose weak handle is dead and whose notifications have all
\* been delivered
DeadAndNotified(e) == IsDead(e.h) /\ pending[e.h.obj] = 0

NoNotificationLost ==
  ~CompactionInProgress
    => \A i \in 1..Len(receivers) : DeadAndNotified(receivers[i]) => _dead_receivers

\* the steps of a compaction leave the table as it is until the
\* assignment, which keeps every entry with a strong or live handle, in
\* order, and removes only dead weak entries
CompactionRemovesOnlyDead ==
  \A t \in Threads :
    (pc[t] \in CompactPcs /\ pc'[t] # pc[t])
      => /\ IsSubseq(receivers', receivers)
         /\ LiveOnly(receivers') = LiveOnly(receivers)
         /\ pc[t] \in {"c_compact", "d_compact", "lr_compact"} => receivers' = receivers

(* C20: no death notification is lost by lazy compaction: in every state
   in which no compaction is in progress, a table entry whose weak handle
   is dead and whose death notification has been delivered implies that
   the flag is set, also when the notification arrives during a
   compaction, which resets the flag before it scans; and a compaction
   removes only entries whose weak handle is dead. *)
C20_NoNotificationLost == [] NoNotificationLost /\ [][CompactionRemovesOnlyDead]_vars

\* a compaction has scanned the table and kept an entry whose receiver
\* died after the scan; the notification has arrived and set the flag
\* before the rebuilt table is assigned
C20_Witness ==
  \E t \in Threads :
    /\ pc[t] \in {"c_swap", "d_swap", "lr_swap"} /\ _dead_receivers
    /\ \E i \in 1..Len(new_receivers) : DeadAndNotified(new_receivers[i])
    /\ Len(new_receivers) < Len(receivers)

====
